---- MODULE Spec2Model ----
(***************************************************************************)
(* News bot (main.py, twitter_bot.py): the run orchestrator main(), the    *)
(* ranking engine fetch_and_rank_news(), the dedup ledger                  *)
(* (posted_links.txt), the audit log (tweet_log.json) and the publisher    *)
(* post_tweet().                                                           *)
(*                                                                         *)
(* Text is a sequence of one-character strings, so that the ledger's       *)
(* "date|link" line format is written and parsed character by character.   *)
(* A calendar date (reference zone) is a day number 0..MaxDay; an optional  *)
(* value is <<>> (None) or <<v>>.  Scores are counted in units of 1/4.     *)
(***************************************************************************)
EXTENDS Integers, Sequences, FiniteSets, TLC

VARIABLES
    today,        \* datetime.now(IST).date(), as a day number
    config,       \* the dict load_config() returns
    postedFile,   \* posted_links.txt, a sequence of characters
    runs,         \* number of invocations of main() started so far
    pc,           \* position of main()
    feeds,        \* what each configured feed answers in this run
    ranked,       \* ranked_news
    selected,     \* selected_news
    idx,          \* the loop index i of main() (1-based)
    tweet_text,   \* tweet_text of the article being processed
    success,      \* success of the article being processed
    postResult,   \* what post_tweet() did for the article being processed
    pubKind,      \* how the browser session of post_tweet_selenium went
    logCalls,     \* the log_tweet() calls of this run, with whether each was persisted
    sleeps,       \* the time.sleep(tweet_delay) calls completed in this run
    composed,     \* the articles generate_tweet() was called for in this run
    loadDay,      \* today_str of this run's load_posted_links()
    posted_links, \* posted_links of fetch_and_rank_news (line 538)
    loadOk,       \* whether load_posted_links() read the file without error
    raised,       \* the exceptions raised in this run: <<article index, where>>
    recorded,     \* the lines save_posted_link() has persisted, with the run that wrote them
    model,        \* the global `model`: not configured, or what generate_content() does when called
    doc,          \* the items of the feed document a fetch_rss_feed() call has received
    stack,        \* the interpreter's call stack during a fetch_rss_feed() call, outermost frame first
    fetches       \* the requests.get() calls made since fetch_and_rank_news called fetch_rss_feed()

vars == <<today, config, postedFile, runs, pc, feeds, ranked, selected, idx,
          tweet_text, success, postResult, pubKind, logCalls, sleeps, composed,
          loadDay, posted_links, loadOk, raised, recorded, model, doc,
          stack, fetches>>

----
\* Bounds of the model.
MaxDay == 2
MaxRuns == 2
MaxTweets == 2
MaxArticles == 2

----
\* Text helpers.

NL == "\n"

\* str.strip() strips these at both ends; a text file is split into lines at NL.
Whitespace == {" ", NL}

RECURSIVE LStrip(_)
LStrip(s) ==
    IF s # <<>> /\ Head(s) \in Whitespace THEN LStrip(Tail(s)) ELSE s

RECURSIVE RStrip(_)
RStrip(s) ==
    IF s # <<>> /\ s[Len(s)] \in Whitespace
    THEN RStrip(SubSeq(s, 1, Len(s) - 1))
    ELSE s

Strip(s) == LStrip(RStrip(s))

\* The position of the first occurrence of character c in s, 0 when there is none.
FirstIndex(s, c) ==
    IF \E k \in 1..Len(s) : s[k] = c
    THEN CHOOSE k \in 1..Len(s) : s[k] = c /\ \A j \in 1..(k - 1) : s[j] # c
    ELSE 0

\* The lines of a text file: split after every NL (the last line may lack one).
RECURSIVE FileLines(_)
FileLines(f) ==
    IF f = <<>> THEN <<>>
    ELSE LET k == FirstIndex(f, NL)
         IN  IF k = 0 THEN <<f>>
             ELSE <<SubSeq(f, 1, k)>> \o FileLines(SubSeq(f, k + 1, Len(f)))

\* str.lower() on the model's alphabet.
LowerChar(c) ==
    CASE c = "M" -> "m"
      [] c = "O" -> "o"
      [] c = "X" -> "x"
      [] OTHER -> c

Lower(s) == [k \in 1..Len(s) |-> LowerChar(s[k])]

\* kw in text (substring test).
Contains(text, kw) ==
    \E k \in 0..(Len(text) - Len(kw)) :
        \A j \in 1..Len(kw) : text[k + j] = kw[j]

Range(s) == {s[k] : k \in 1..Len(s)}

----
\* Dedup ledger: posted_links.txt, one "date|link" line per record.

\* date.isoformat(): a token without '|' and without whitespace.
DateStr(d) == <<CASE d = 0 -> "0" [] d = 1 -> "1" [] d = 2 -> "2" [] d = 3 -> "3"
                  [] d = 4 -> "4" [] OTHER -> "9">>

\* f"{date}|{link}\n"
LedgerLine(d, link) == DateStr(d) \o <<"|">> \o link \o <<NL>>

\* The body of the for-loop of load_posted_links for one line.
LinkOfLine(rawLine, todayStr) ==
    LET line == Strip(rawLine)
        k == FirstIndex(line, "|")
    IN  IF line = <<>> THEN {}
        ELSE IF k = 0 THEN {}                       \* ValueError: skipped
        ELSE IF SubSeq(line, 1, k - 1) = todayStr
             THEN {SubSeq(line, k + 1, Len(line))}
             ELSE {}

\* load_posted_links(): readOk = FALSE is the except branch (the read failed).
load_posted_links(file, day, readOk) ==
    IF file = <<>> THEN {}
    ELSE IF ~readOk THEN {}
    ELSE LET lines == FileLines(file)
         IN  UNION {LinkOfLine(lines[k], DateStr(day)) : k \in 1..Len(lines)}

\* save_posted_link(link): writeOk = FALSE is the except branch (nothing appended).
save_posted_link(file, day, link, writeOk) ==
    IF writeOk THEN file \o LedgerLine(day, link) ELSE file

----
\* Configuration (DEFAULT_CONFIG and what bot_config.json may hold).

\* category_weights of DEFAULT_CONFIG, for the categories the model uses.
category_weights == [c \in {"india", "technology"} |-> IF c = "india" THEN 4 ELSE 3]

\* priority_keywords, as configured (mixed case).
priority_keywords == << <<"M", "o">>, <<"O">> >>

\* summary[:500] and title[:200] style slices.
Prefix(s, n) == SubSeq(s, 1, IF Len(s) < n THEN Len(s) ELSE n)

SummaryLimit == 500

\* ' '.join(s.split()): runs of whitespace become one space, the ends are trimmed.
\* (A run of other characters is copied in one step.)
FirstWhite(s) ==
    IF \E k \in 1..Len(s) : s[k] \in Whitespace
    THEN CHOOSE k \in 1..Len(s) :
             s[k] \in Whitespace /\ \A j \in 1..(k - 1) : s[j] \notin Whitespace
    ELSE 0

RECURSIVE Collapse(_)
Collapse(s) ==
    IF s = <<>> THEN <<>>
    ELSE IF Head(s) \in Whitespace
         THEN LET r == LStrip(s) IN IF r = <<>> THEN <<>> ELSE <<" ">> \o Collapse(r)
         ELSE LET k == FirstWhite(s)
              IN  IF k = 0 THEN s
                  ELSE SubSeq(s, 1, k - 1) \o Collapse(SubSeq(s, k, Len(s)))

SplitJoin(s) == Collapse(LStrip(s))

----
\* Feed parser, as far as the ranking engine sees it.

\* pub_date_dt is None (parse_rss_date of an empty date string) or a datetime.
None == <<>>
Some(v) == <<v>>

FailStatus == {"network", "http", "xml"}

\* Mutant: the items parsed so far are returned although the fetch failed.
fetch_rss_feed_KeepsItems(answer) == answer.entries

\* fetch_rss_feed(url)['entries']: the parsed items, or [] after any failure
\* (RequestException, raise_for_status, ET.ParseError).
fetch_rss_feed(answer) ==
    IF answer.status = "ok" THEN answer.entries ELSE <<>>

----
\* Ranking engine: fetch_and_rank_news(config).

\* Mutant: the combined text is not lowercased before the keywords are looked up.
keyword_score_CaseSensitive(cfg, title, summary) ==
    LET combined_text == title \o <<" ">> \o summary
        kws == [k \in 1..Len(cfg.priority_keywords) |-> Lower(cfg.priority_keywords[k])]
    IN  Cardinality({k \in 1..Len(kws) : Contains(combined_text, kws[k])})

\* sum(1 for kw in priority_keywords if kw in combined_text)
keyword_score(cfg, title, summary) ==
    LET combined_text == Lower(title \o <<" ">> \o summary)
        kws == [k \in 1..Len(cfg.priority_keywords) |-> Lower(cfg.priority_keywords[k])]
    IN  Cardinality({k \in 1..Len(kws) : Contains(combined_text, kws[k])})

\* category_weights.get(category, 1)
category_score(cfg, category) ==
    IF category \in DOMAIN cfg.category_weights
    THEN cfg.category_weights[category]
    ELSE 1

\* total_score, in quarters: jitter j stands for random.uniform(0, 0.5) = j/4.
total_score(kw, cat, rec, j) == 4 * ((kw * 2) + cat + rec) + j

\* Mutant: the jitter is drawn from a range wider than one score point.
Jitters_Wide == {0, 5}

\* The draws of random.uniform(0, 0.5) the model distinguishes: 0 and 0.25.
Jitters == {0, 1}

\* The item appended to all_news (lines 586-611).
NewsItem(entry, f, k, category, env) ==
    LET title == Strip(entry.title)
        summary == Prefix(SplitJoin(Strip(entry.summary)), SummaryLimit)
        rec == IF entry.pub_date_dt[1] = env.today THEN 1 ELSE 0
    IN  [title |-> title, summary |-> summary, link |-> entry.link,
         category |-> category, pub_date |-> entry.pub_date_dt[1],
         score |-> total_score(keyword_score(env.config, title, summary),
                               category_score(env.config, category),
                               rec, env.jitter[<<f, k>>]),
         src |-> <<f, k>>]

\* Mutant: the link is not checked against seen_links.
ScanEntry_NoSeenLinks(entry, f, k, category, acc, env) ==
    IF entry.pub_date_dt = None THEN acc
    ELSE IF entry.pub_date_dt[1] < env.today - (env.config.max_news_age_days - 1) THEN acc
    ELSE IF entry.link = <<>> \/ entry.link \in env.posted_links THEN acc
    ELSE IF Strip(entry.title) = <<>> THEN acc
    ELSE [all_news |-> Append(acc.all_news, NewsItem(entry, f, k, category, env)),
          seen_links |-> acc.seen_links \cup {entry.link}]

\* Mutant: old news is not skipped.
ScanEntry_NoAgeFilter(entry, f, k, category, acc, env) ==
    IF entry.pub_date_dt = None THEN acc
    ELSE IF entry.link = <<>> \/ entry.link \in acc.seen_links
            \/ entry.link \in env.posted_links THEN acc
    ELSE IF Strip(entry.title) = <<>> THEN acc
    ELSE [all_news |-> Append(acc.all_news, NewsItem(entry, f, k, category, env)),
          seen_links |-> acc.seen_links \cup {entry.link}]

\* One pass of the inner loop (lines 553-614) over entry k of feed f.
\* acc = [all_news, seen_links]; env = [config, today, posted_links, jitter].
ScanEntry(entry, f, k, category, acc, env) ==
    LET pub_date == IF entry.pub_date_dt = None THEN 0 ELSE entry.pub_date_dt[1]
        oldest_date == env.today - (env.config.max_news_age_days - 1)
        link == entry.link
        title == Strip(entry.title)
    IN  IF entry.pub_date_dt = None THEN acc
        ELSE IF pub_date < oldest_date THEN acc
        ELSE IF link = <<>> \/ link \in acc.seen_links \/ link \in env.posted_links
             THEN acc
        ELSE IF title = <<>> THEN acc
        ELSE [all_news |-> Append(acc.all_news, NewsItem(entry, f, k, category, env)),
              seen_links |-> acc.seen_links \cup {link}]

RECURSIVE ScanEntries(_, _, _, _, _, _)
ScanEntries(entries, f, k, category, acc, env) ==
    IF k > Len(entries) THEN acc
    ELSE ScanEntries(entries, f, k + 1, category,
                     ScanEntry(entries[k], f, k, category, acc, env), env)

\* One pass of the outer loop (lines 544-620) over configured feed f.
\* A feed without url raises at line 549 (feed_url[:50]) before anything is
\* fetched; the except of line 619 then moves on to the next feed.
ScanFeed(f, answers, acc, env) ==
    LET feed_config == env.config.rss_feeds[f]
    IN  IF feed_config.url = "None" THEN acc
        ELSE ScanEntries(fetch_rss_feed(answers[f]), f, 1,
                         feed_config.category, acc, env)

RECURSIVE ScanFeeds(_, _, _, _)
ScanFeeds(f, answers, acc, env) ==
    IF f > Len(env.config.rss_feeds) THEN acc
    ELSE ScanFeeds(f + 1, answers, ScanFeed(f, answers, acc, env), env)

\* Mutant: an item goes before the earlier items of equal score.
InsertDesc_BeforeEqual(sorted, x) ==
    LET pos == Cardinality({j \in 1..Len(sorted) : sorted[j].score > x.score})
    IN  SubSeq(sorted, 1, pos) \o <<x>> \o SubSeq(sorted, pos + 1, Len(sorted))

\* sorted(all_news, key=score, reverse=True): stable, so an item goes after
\* every earlier item whose score is at least its own.
InsertDesc(sorted, x) ==
    LET pos == Cardinality({j \in 1..Len(sorted) : sorted[j].score >= x.score})
    IN  SubSeq(sorted, 1, pos) \o <<x>> \o SubSeq(sorted, pos + 1, Len(sorted))

RECURSIVE SortedDesc(_)
SortedDesc(s) ==
    IF s = <<>> THEN <<>>
    ELSE InsertDesc(SortedDesc(SubSeq(s, 1, Len(s) - 1)), s[Len(s)])

all_news(answers, env) ==
    ScanFeeds(1, answers, [all_news |-> <<>>, seen_links |-> {}], env).all_news

fetch_and_rank_news(answers, env) == SortedDesc(all_news(answers, env))

----
\* Inputs of the model.

La == <<"a">>
Lb == <<"b">>
\* A link whose text holds a line break: link = elem.text.strip() (line 279)
\* strips the ends only.
Lnl == <<"a", NL, "b">>

TitleKw == <<"M", "o">>
TitlePlain == <<"x">>

Entry(title, link, summary, pub) ==
    [title |-> title, link |-> link, summary |-> summary, pub_date_dt |-> pub]

EntryPool(titles, links, summaries, pubs) ==
    {Entry(t, l, s, p) : t \in titles, l \in links, s \in summaries, p \in pubs}

rss_feeds == << [url |-> "u1", category |-> "india"],
                [url |-> "u2", category |-> "technology"] >>

Config(feedList, n, age, delay, method) ==
    [rss_feeds |-> feedList,
     priority_keywords |-> priority_keywords,
     category_weights |-> category_weights,
     tweets_per_run |-> n,
     max_news_age_days |-> age,
     tweet_delay_seconds |-> delay,
     tweet_method |-> method]

\* tweets_per_run is any integer the configuration file holds.
TweetsPerRunValues == (0 - 1)..MaxTweets

\* tweet_delay_seconds: the default, and a negative value (time.sleep raises).
DelayValues == {0 - 1, 15}

RunConfigs ==
    {Config(rss_feeds, n, 2, d, "selenium") : n \in TweetsPerRunValues, d \in DelayValues}
    \cup {Config(rss_feeds, 1, 2, 15, "api")}

\* The answers of the configured feeds: one [status, entries] per feed, with
\* at most MaxArticles entries over all feeds.
SeqsUpTo(S, n) == UNION {[1..k -> S] : k \in 0..n}

Answers(pool, statuses) ==
    {<<[status |-> s1, entries |-> e1], [status |-> s2, entries |-> e2]>> :
        s1 \in statuses, s2 \in statuses,
        e1 \in SeqsUpTo(pool, MaxArticles), e2 \in SeqsUpTo(pool, MaxArticles)}

TotalEntries(answers) == Len(answers[1].entries) + Len(answers[2].entries)

\* The entries a jitter may be drawn for.
Positions(answers) ==
    UNION {{<<f, k>> : k \in 1..Len(answers[f].entries)} : f \in 1..Len(answers)}

\* The read of posted_links.txt can fail only when the file exists.
ReadOutcomes(file) == IF file = <<>> THEN {TRUE} ELSE BOOLEAN

RunAnswers(day) ==
    {a \in Answers(EntryPool({TitlePlain}, {La, Lnl}, {<<>>}, {Some(day)}), {"ok", "network"}) :
        TotalEntries(a) <= MaxArticles}

----
\* Run orchestrator: main().

\* ranked_news[:tweets_per_run]
PySlice(s, n) ==
    IF n >= 0 THEN SubSeq(s, 1, IF n < Len(s) THEN n ELSE Len(s))
    ELSE SubSeq(s, 1, IF Len(s) + n > 0 THEN Len(s) + n ELSE 0)

news == selected[idx]

Init ==
    /\ today = 1
    /\ config \in RunConfigs
    /\ postedFile = <<>>
    /\ runs = 0
    /\ pc = "idle"
    /\ feeds = <<>>
    /\ ranked = <<>>
    /\ selected = <<>>
    /\ idx = 0
    /\ tweet_text = "none"
    /\ success = FALSE
    /\ postResult = "none"
    /\ pubKind = "none"
    /\ logCalls = <<>>
    /\ sleeps = 0
    /\ composed = <<>>
    /\ loadDay = 0
    /\ posted_links = {}
    /\ loadOk = TRUE
    /\ raised = {}
    /\ recorded = {}
    /\ model = [kind |-> "none"]
    /\ doc = <<>>
    /\ stack = <<>>
    /\ fetches = 0

\* Midnight in the reference zone.
Tick ==
    /\ today < MaxDay
    /\ pc \in {"idle", "done"}
    /\ today' = today + 1
    /\ UNCHANGED <<config, postedFile, runs, pc, feeds, ranked, selected, idx,
                   tweet_text, success, postResult, pubKind, logCalls, sleeps,
                   composed, raised, loadDay, posted_links, loadOk, recorded>>
    /\ UNCHANGED <<model, doc, stack, fetches>>

\* The scheduler invokes main(); load_config() returns the configuration.
StartRun ==
    /\ pc \in {"idle", "done"}
    /\ runs < MaxRuns
    /\ runs' = runs + 1
    /\ pc' = "fetch"
    /\ feeds' = <<>>
    /\ ranked' = <<>>
    /\ selected' = <<>>
    /\ idx' = 0
    /\ tweet_text' = "none"
    /\ success' = FALSE
    /\ postResult' = "none"
    /\ pubKind' = "none"
    /\ logCalls' = <<>>
    /\ sleeps' = 0
    /\ composed' = <<>>
    /\ loadDay' = 0
    /\ posted_links' = {}
    /\ loadOk' = TRUE
    /\ raised' = {}
    /\ UNCHANGED <<today, config, postedFile, recorded>>
    /\ UNCHANGED <<model, doc, stack, fetches>>

\* ranked_news = fetch_and_rank_news(config)
FetchAndRank ==
    /\ pc = "fetch"
    /\ \E answers \in RunAnswers(today), readOk \in ReadOutcomes(postedFile) :
         \E jitter \in [Positions(answers) -> Jitters] :
            LET env == [config |-> config, today |-> today,
                        posted_links |-> load_posted_links(postedFile, today, readOk),
                        jitter |-> jitter]
            IN  /\ feeds' = answers
                /\ posted_links' = env.posted_links
                /\ loadOk' = readOk
                /\ ranked' = fetch_and_rank_news(answers, env)
    /\ loadDay' = today
    /\ pc' = "select"
    /\ UNCHANGED <<today, config, postedFile, runs, selected, idx, tweet_text,
                   success, postResult, pubKind, logCalls, sleeps, composed,
                   raised, recorded>>
    /\ UNCHANGED <<model, doc, stack, fetches>>

\* Lines 651-666: return when nothing is ranked, else take the slice and
\* enter the loop (which ends at once over an empty slice).
SelectTopN ==
    /\ pc = "select"
    /\ IF ranked = <<>>
       THEN /\ pc' = "done"
            /\ UNCHANGED <<selected, idx>>
       ELSE /\ selected' = PySlice(ranked, config.tweets_per_run)
            /\ idx' = 1
            /\ pc' = IF selected' = <<>> THEN "done" ELSE "compose"
    /\ UNCHANGED <<today, config, postedFile, runs, feeds, ranked, tweet_text,
                   success, postResult, pubKind, logCalls, sleeps, composed, raised,
                   loadDay, posted_links, loadOk, recorded>>
    /\ UNCHANGED <<model, doc, stack, fetches>>

\* tweet_text = generate_tweet(...): the AI text or the fallback text; it
\* returns in both cases.
GenerateTweet ==
    /\ pc = "compose"
    /\ \E kind \in {"ai", "fallback"} : tweet_text' = kind
    /\ composed' = Append(composed, idx)
    /\ postResult' = "none"
    /\ pubKind' = "none"
    /\ pc' = "post"
    /\ UNCHANGED <<today, config, postedFile, runs, feeds, ranked, selected, idx,
                   success, logCalls, sleeps, raised, loadDay, posted_links,
                   loadOk, recorded>>
    /\ UNCHANGED <<model, doc, stack, fetches>>

----
\* Publisher: post_tweet() and post_tweet_selenium() (twitter_bot.py).

\* What the browser session (the try block, lines 218-368) can end as:
\* the post confirmed (line 360), the post button not found or no click
\* confirmed (lines 326, 368), or an exception inside the session (line 376).
\* post_tweet_selenium returns True after each of them.
SessionKinds == {"confirmed", "unconfirmed", "error"}

\* Mutant: only a confirmed post is reported as a success.
session_result_OnlyConfirmed(kind) == kind = "confirmed"

session_result(kind) == TRUE

\* post_tweet(): another method than 'selenium' returns True at once.
\* setup_brave_driver() (line 216) is outside the try: its exception reaches main().
PostTweetSetup ==
    /\ pc = "post"
    /\ IF config.tweet_method # "selenium"
       THEN /\ success' = TRUE
            /\ postResult' = "true"
            /\ pc' = "log"
            /\ UNCHANGED raised
       ELSE \E setupOk \in BOOLEAN :
              IF setupOk
              THEN /\ pc' = "session"
                   /\ UNCHANGED <<success, postResult, raised>>
              ELSE /\ postResult' = "raise"
                   /\ raised' = raised \cup {<<idx, "publish">>}
                   /\ pc' = "except"
                   /\ UNCHANGED success
    /\ UNCHANGED <<today, config, postedFile, runs, feeds, ranked, selected, idx,
                   tweet_text, pubKind, logCalls, sleeps, composed, loadDay,
                   posted_links, loadOk, recorded>>
    /\ UNCHANGED <<model, doc, stack, fetches>>

\* The browser session.  Not being logged in leads to input() (line 235, or
\* line 210 after handle_twitter_login failed), which waits for the operator.
PostTweetSession ==
    /\ pc = "session"
    /\ \/ \E kind \in SessionKinds :
            /\ pubKind' = kind
            /\ pc' = "quit"
       \/ /\ pc' = "input"
          /\ UNCHANGED pubKind
    /\ UNCHANGED <<today, config, postedFile, runs, feeds, ranked, selected, idx,
                   tweet_text, success, postResult, logCalls, sleeps, composed, raised,
                   loadDay, posted_links, loadOk, recorded>>
    /\ UNCHANGED <<model, doc, stack, fetches>>

\* The operator presses Enter (or stdin is closed and input() raises EOFError,
\* which the except of line 370 turns into the "error" ending).
PressEnter ==
    /\ pc = "input"
    /\ \E kind \in SessionKinds : pubKind' = kind
    /\ pc' = "quit"
    /\ UNCHANGED <<today, config, postedFile, runs, feeds, ranked, selected, idx,
                   tweet_text, success, postResult, logCalls, sleeps, composed, raised,
                   loadDay, posted_links, loadOk, recorded>>
    /\ UNCHANGED <<model, doc, stack, fetches>>

\* finally: driver.quit() (line 379); its exception replaces the return value.
PostTweetQuit ==
    /\ pc = "quit"
    /\ \E quitOk \in BOOLEAN :
         IF quitOk
         THEN /\ success' = session_result(pubKind)
              /\ postResult' = IF session_result(pubKind) THEN "true" ELSE "false"
              /\ pc' = "log"
              /\ UNCHANGED raised
         ELSE /\ postResult' = "raise"
              /\ raised' = raised \cup {<<idx, "publish">>}
              /\ pc' = "except"
              /\ UNCHANGED success
    /\ UNCHANGED <<today, config, postedFile, runs, feeds, ranked, selected, idx,
                   tweet_text, pubKind, logCalls, sleeps, composed, loadDay,
                   posted_links, loadOk, recorded>>
    /\ UNCHANGED <<model, doc, stack, fetches>>

----
\* Audit log: log_tweet().  written = FALSE is its except branch: the
\* read-modify-write of tweet_log.json failed and nothing was appended.
log_tweet(log, i, link, text, ok, written) ==
    Append(log, [i |-> i, link |-> link, tweet |-> text, success |-> ok,
                 written |-> written])

\* tweet_log.json, as far as this run wrote it.
tweetLog == SelectSeq(logCalls, LAMBDA e : e.written)

\* The loop moves on: the next article, or the end of main().
NextArticle ==
    IF idx < Len(selected)
    THEN /\ idx' = idx + 1
         /\ pc' = "compose"
    ELSE /\ pc' = "done"
         /\ UNCHANGED idx

\* Lines 693-700.
LogAttempt ==
    /\ pc = "log"
    /\ \E written \in BOOLEAN :
         /\ logCalls' = log_tweet(logCalls, idx, news.link, tweet_text, success, written)
         /\ raised' = IF written THEN raised ELSE raised \cup {<<idx, "log">>}
    /\ pc' = IF success THEN "save" ELSE "delay"
    /\ UNCHANGED <<today, config, postedFile, runs, feeds, ranked, selected, idx,
                   tweet_text, success, postResult, pubKind, sleeps, composed,
                   loadDay, posted_links, loadOk, recorded>>
    /\ UNCHANGED <<model, doc, stack, fetches>>

\* Lines 702-705.
SavePostedLink ==
    /\ pc = "save"
    /\ \E writeOk \in BOOLEAN :
         /\ postedFile' = save_posted_link(postedFile, today, news.link, writeOk)
         /\ recorded' = IF writeOk
                        THEN recorded \cup {[run |-> runs, day |-> today, link |-> news.link]}
                        ELSE recorded
         /\ raised' = IF writeOk THEN raised ELSE raised \cup {<<idx, "ledger">>}
    /\ pc' = "delay"
    /\ UNCHANGED <<today, config, runs, feeds, ranked, selected, idx, tweet_text,
                   success, postResult, pubKind, logCalls, sleeps, composed,
                   loadDay, posted_links, loadOk>>
    /\ UNCHANGED <<model, doc, stack, fetches>>

\* Lines 709-712: time.sleep(tweet_delay) raises ValueError for a negative delay.
Delay ==
    /\ pc = "delay"
    /\ IF idx < Len(selected)
       THEN IF config.tweet_delay_seconds < 0
            THEN /\ pc' = "except"
                 /\ raised' = raised \cup {<<idx, "delay">>}
                 /\ UNCHANGED <<idx, sleeps>>
            ELSE /\ sleeps' = sleeps + 1
                 /\ NextArticle
                 /\ UNCHANGED raised
       ELSE /\ NextArticle
            /\ UNCHANGED <<sleeps, raised>>
    /\ UNCHANGED <<today, config, postedFile, runs, feeds, ranked, selected,
                   tweet_text, success, postResult, pubKind, logCalls, composed,
                   loadDay, posted_links, loadOk, recorded>>
    /\ UNCHANGED <<model, doc, stack, fetches>>

\* Mutant: the except branch also records the link in the ledger.
HandleException_RecordsLink ==
    /\ pc = "except"
    /\ \E written \in BOOLEAN :
         /\ logCalls' = log_tweet(logCalls, idx, news.link, "ERROR", FALSE, written)
         /\ raised' = IF written THEN raised ELSE raised \cup {<<idx, "log">>}
    /\ postedFile' = save_posted_link(postedFile, today, news.link, TRUE)
    /\ recorded' = recorded \cup {[run |-> runs, day |-> today, link |-> news.link]}
    /\ NextArticle
    /\ UNCHANGED <<today, config, runs, feeds, ranked, selected,
                   tweet_text, success, postResult, pubKind, sleeps, composed,
                   loadDay, posted_links, loadOk>>
    /\ UNCHANGED <<model, doc, stack, fetches>>

\* Mutant: the except branch does not call log_tweet.
HandleException_NoLog ==
    /\ pc = "except"
    /\ NextArticle
    /\ UNCHANGED <<today, config, postedFile, runs, feeds, ranked, selected,
                   tweet_text, success, postResult, pubKind, logCalls, sleeps,
                   composed, raised, loadDay, posted_links, loadOk, recorded>>
    /\ UNCHANGED <<model, doc, stack, fetches>>

\* Mutant: the except branch logs the failure and ends the loop.
HandleException_EndsLoop ==
    /\ pc = "except"
    /\ \E written \in BOOLEAN :
         /\ logCalls' = log_tweet(logCalls, idx, news.link, "ERROR", FALSE, written)
         /\ raised' = IF written THEN raised ELSE raised \cup {<<idx, "log">>}
    /\ pc' = "done"
    /\ UNCHANGED <<today, config, postedFile, runs, feeds, ranked, selected, idx,
                   tweet_text, success, postResult, pubKind, sleeps, composed,
                   loadDay, posted_links, loadOk, recorded>>
    /\ UNCHANGED <<model, doc, stack, fetches>>

\* Lines 714-723: the except branch of the loop body.
HandleException ==
    /\ pc = "except"
    /\ \E written \in BOOLEAN :
         /\ logCalls' = log_tweet(logCalls, idx, news.link, "ERROR", FALSE, written)
         /\ raised' = IF written THEN raised ELSE raised \cup {<<idx, "log">>}
    /\ NextArticle
    /\ UNCHANGED <<today, config, postedFile, runs, feeds, ranked, selected,
                   tweet_text, success, postResult, pubKind, sleeps, composed,
                   loadDay, posted_links, loadOk, recorded>>
    /\ UNCHANGED <<model, doc, stack, fetches>>

RunStep ==
    \/ FetchAndRank
    \/ SelectTopN
    \/ GenerateTweet
    \/ PostTweetSetup
    \/ PostTweetSession
    \/ PostTweetQuit
    \/ LogAttempt
    \/ SavePostedLink
    \/ Delay
    \/ HandleException

Next ==
    \/ Tick
    \/ StartRun
    \/ RunStep
    \/ PressEnter

Spec == Init /\ [][Next]_vars

\* The interpreter keeps executing a started run; nothing makes the operator
\* press Enter, so PressEnter carries no fairness.
FairSpec == Spec /\ WF_vars(RunStep)

----
\* The ranking engine on its own: the inputs of fetch_and_rank_news are built
\* entry by entry, then the function is applied once.

RankFeedLists ==
    {rss_feeds,
     << [url |-> "None", category |-> "india"], [url |-> "u2", category |-> "general"] >>}

RankConfigs == {Config(fl, 3, age, 15, "selenium") : fl \in RankFeedLists, age \in {1, 2}}

RankPool == EntryPool({TitlePlain}, {La, Lb}, {<<>>},
                      {None} \cup {Some(d) : d \in 0..MaxDay})

RankStatuses == {"ok"} \cup FailStatus

RankLedgers == {<<>>, LedgerLine(MaxDay, La), LedgerLine(MaxDay - 1, La)}

RankInit ==
    /\ today = MaxDay
    /\ config \in RankConfigs
    /\ postedFile \in RankLedgers
    /\ runs = 1
    /\ pc = "rank_input"
    /\ \E s1 \in RankStatuses, s2 \in RankStatuses :
         feeds = <<[status |-> s1, entries |-> <<>>], [status |-> s2, entries |-> <<>>]>>
    /\ ranked = <<>>
    /\ selected = <<>>
    /\ idx = 0
    /\ tweet_text = "none"
    /\ success = FALSE
    /\ postResult = "none"
    /\ pubKind = "none"
    /\ logCalls = <<>>
    /\ sleeps = 0
    /\ composed = <<>>
    /\ loadDay = 0
    /\ posted_links = {}
    /\ loadOk = TRUE
    /\ raised = {}
    /\ recorded = {}
    /\ model = [kind |-> "none"]
    /\ doc = <<>>
    /\ stack = <<>>
    /\ fetches = 0

\* One more entry in the answer of feed f.
AddEntry ==
    /\ pc = "rank_input"
    /\ TotalEntries(feeds) < MaxArticles + 1
    /\ \E f \in 1..Len(feeds), e \in RankPool :
         feeds' = [feeds EXCEPT ![f].entries = Append(@, e)]
    /\ UNCHANGED <<today, config, postedFile, runs, pc, ranked, selected, idx,
                   tweet_text, success, postResult, pubKind, logCalls, sleeps,
                   composed, raised, loadDay, posted_links, loadOk, recorded>>
    /\ UNCHANGED <<model, doc, stack, fetches>>

\* ranked_news = fetch_and_rank_news(config) on the inputs built so far.
Rank ==
    /\ pc = "rank_input"
    /\ \E readOk \in ReadOutcomes(postedFile), jitter \in [Positions(feeds) -> Jitters] :
         LET env == [config |-> config, today |-> today,
                     posted_links |-> load_posted_links(postedFile, today, readOk),
                     jitter |-> jitter]
         IN  /\ posted_links' = env.posted_links
             /\ loadOk' = readOk
             /\ ranked' = fetch_and_rank_news(feeds, env)
    /\ loadDay' = today
    /\ pc' = "ranked"
    /\ UNCHANGED <<today, config, postedFile, runs, feeds, selected, idx,
                   tweet_text, success, postResult, pubKind, logCalls, sleeps,
                   composed, raised, recorded>>
    /\ UNCHANGED <<model, doc, stack, fetches>>

RankNext ==
    \/ AddEntry
    \/ Rank

RankSpec == RankInit /\ [][RankNext]_vars

----
\* The scoring of the ranking engine: entries with and without priority
\* keywords, dated today, yesterday and earlier, from feeds of listed and
\* unlisted categories.

ScoreFeedLists ==
    {rss_feeds,
     << [url |-> "u1", category |-> "general"], [url |-> "u2", category |-> "india"] >>}

ScoreConfigs == {Config(fl, 3, age, 15, "selenium") : fl \in ScoreFeedLists, age \in {1, 2}}

\* Feed entries as the feed parser returns them (title and link not empty).
ScorePool == EntryPool({TitlePlain, TitleKw}, {La, Lb}, {<<>>, <<"O">>},
                       {Some(d) : d \in 0..MaxDay})

ScoreLedgers == {<<>>, LedgerLine(MaxDay, La)}

ScoreInit ==
    /\ today = MaxDay
    /\ config \in ScoreConfigs
    /\ postedFile \in ScoreLedgers
    /\ runs = 1
    /\ pc = "rank_input"
    /\ feeds = <<[status |-> "ok", entries |-> <<>>], [status |-> "ok", entries |-> <<>>]>>
    /\ ranked = <<>>
    /\ selected = <<>>
    /\ idx = 0
    /\ tweet_text = "none"
    /\ success = FALSE
    /\ postResult = "none"
    /\ pubKind = "none"
    /\ logCalls = <<>>
    /\ sleeps = 0
    /\ composed = <<>>
    /\ loadDay = 0
    /\ posted_links = {}
    /\ loadOk = TRUE
    /\ raised = {}
    /\ recorded = {}
    /\ model = [kind |-> "none"]
    /\ doc = <<>>
    /\ stack = <<>>
    /\ fetches = 0

\* One more entry in the answer of feed f.
AddScoredEntry ==
    /\ pc = "rank_input"
    /\ TotalEntries(feeds) < MaxArticles
    /\ \E f \in 1..Len(feeds), e \in ScorePool :
         feeds' = [feeds EXCEPT ![f].entries = Append(@, e)]
    /\ UNCHANGED <<today, config, postedFile, runs, pc, ranked, selected, idx,
                   tweet_text, success, postResult, pubKind, logCalls, sleeps,
                   composed, raised, loadDay, posted_links, loadOk, recorded>>
    /\ UNCHANGED <<model, doc, stack, fetches>>

ScoreNext ==
    \/ AddScoredEntry
    \/ Rank

ScoreSpec == ScoreInit /\ [][ScoreNext]_vars

----
\* Post composer: generate_tweet(title, summary, category).

Repeat(c, n) == [k \in 1..n |-> c]

\* str.upper() on the model's alphabet.
UpperChar(c) ==
    CASE c = "m" -> "M"
      [] c = "o" -> "O"
      [] c = "x" -> "X"
      [] OTHER -> c

\* str.capitalize(): first character upper-cased, the rest lower-cased.
Capitalize(s) == IF s = <<>> THEN <<>> ELSE <<UpperChar(Head(s))>> \o Lower(Tail(s))

TitleLimit == 200
TweetLimit == 280
AiKeep == 277

Dots == <<".", ".", ".">>
NewsTag == <<" ", "#", "N", "e", "w", "s">>

\* Mutant: the hashtag is the category as configured.
fallback_tweet_PlainCategory(title, category) ==
    Prefix(Prefix(title, TitleLimit) \o Dots \o <<" ", "#">> \o category \o NewsTag,
           TweetLimit)

\* hashtag = f"#{category.capitalize()}"; f"{title[:200]}... {hashtag} #News"[:280]
fallback_tweet(title, category) ==
    Prefix(Prefix(title, TitleLimit) \o Dots \o <<" ">> \o (<<"#">> \o Capitalize(category))
               \o NewsTag,
           TweetLimit)

\* tweet_text.replace('**', '').replace('*', '')
RemoveStars(s) == SelectSeq(s, LAMBDA c : c # "*")

\* generate_tweet: m is the global model (kind "none": not configured) and
\* what generate_content / response.text does when called ("throws", "text").
generate_tweet(title, summary, category, m) ==
    IF m.kind = "none" THEN fallback_tweet(title, category)
    ELSE IF m.kind = "throws" THEN fallback_tweet(title, category)
    ELSE LET t == RemoveStars(Strip(m.text))
         IN  IF Len(t) > TweetLimit THEN Prefix(t, AiKeep) \o Dots ELSE t

\* Categories as text: lower case, capitalized, mixed case, empty, and one so
\* long that the fallback has to be cut.
ComposeCategories ==
    {<<"o">>, <<"M", "o">>, <<"o", "M">>, <<>>, Repeat("o", 80)}

ComposeTitles == {Repeat("x", n) : n \in {1, TitleLimit - 1, TitleLimit, TitleLimit + 1}}

ModelStates ==
    {[kind |-> "none"], [kind |-> "throws"]}
    \cup {[kind |-> "text", text |-> t] :
             t \in {<<>>, <<" ", "*", "*", "a", "*", " ">>,
                    Repeat("a", TweetLimit), Repeat("a", TweetLimit + 1)}}

ComposeInit ==
    /\ today = 1
    /\ config = Config(rss_feeds, 1, 2, 15, "selenium")
    /\ postedFile = <<>>
    /\ runs = 1
    /\ pc = "compose_input"
    /\ feeds = <<>>
    /\ ranked = <<>>
    /\ selected = <<>>
    /\ idx = 0
    /\ tweet_text = "none"
    /\ success = FALSE
    /\ postResult = "none"
    /\ pubKind = "none"
    /\ logCalls = <<>>
    /\ sleeps = 0
    /\ composed = <<>>
    /\ loadDay = 0
    /\ posted_links = {}
    /\ loadOk = TRUE
    /\ raised = {}
    /\ recorded = {}
    /\ model \in ModelStates
    /\ doc = <<>>
    /\ stack = <<>>
    /\ fetches = 0

\* The article the loop of main() is about to compose a post for.
PickArticle ==
    /\ pc = "compose_input"
    /\ \E title \in ComposeTitles, category \in ComposeCategories :
         selected' = <<[title |-> title, summary |-> <<>>, link |-> La,
                        category |-> category, pub_date |-> today,
                        score |-> 0, src |-> <<1, 1>>]>>
    /\ idx' = 1
    /\ pc' = "compose"
    /\ UNCHANGED <<today, config, postedFile, runs, feeds, ranked, tweet_text,
                   success, postResult, pubKind, logCalls, sleeps, composed, raised,
                   loadDay, posted_links, loadOk, recorded, model, doc,
                   stack, fetches>>

\* Lines 679-683: tweet_text = generate_tweet(title, summary, category).
ComposeText ==
    /\ pc = "compose"
    /\ tweet_text' = generate_tweet(news.title, news.summary, news.category, model)
    /\ composed' = Append(composed, idx)
    /\ pc' = "post"
    /\ UNCHANGED <<today, config, postedFile, runs, feeds, ranked, selected, idx,
                   success, postResult, pubKind, logCalls, sleeps, raised,
                   loadDay, posted_links, loadOk, recorded, model, doc,
                   stack, fetches>>

ComposeNext ==
    \/ PickArticle
    \/ ComposeText

ComposeSpec == ComposeInit /\ [][ComposeNext]_vars

----
\* Date normalizer: parse_rss_date(date_str).
\*
\* A timestamp string is a sequence over: "0" "1" "2" (a calendar day, written
\* in a known format without zone), "9" (the last day datetime can hold),
\* "Z" (the suffix of a known format with zone: 23:59:59 +0000), "8" (text of
\* the shape YYYY-MM-DD that is no calendar date), "?" (anything else), " ".

DayChars == {"0", "1", "2", "9"}

LastDay == 9

DayOf(c) == CASE c = "0" -> 0 [] c = "1" -> 1 [] c = "2" -> 2 [] OTHER -> LastDay

\* The position of the first text of the shape YYYY-MM-DD in s, 0 when none.
DateMatch(s) ==
    LET hits == {k \in 1..Len(s) : s[k] \in DayChars \cup {"8"}}
    IN  IF hits = {} THEN 0 ELSE CHOOSE k \in hits : \A j \in hits : k <= j

Returned(v) == [raises |-> FALSE, value |-> v]
Raised == [raises |-> TRUE, value |-> None]

\* parse_rss_date(date_str); now is datetime.now(IST) as a day number.
\* A timestamp with zone is converted with astimezone(IST): 23:59:59 +0000 is
\* the next day in IST, and past the last day datetime raises OverflowError,
\* which the except ValueError of line 143 does not catch.
parse_rss_date(date_str, now) ==
    IF date_str = <<>> THEN Returned(None)
    ELSE LET t == Strip(date_str)
             k == DateMatch(t)
         IN  IF Len(t) = 1 /\ t[1] \in DayChars THEN Returned(Some(DayOf(t[1])))
             ELSE IF Len(t) = 2 /\ t[1] \in DayChars /\ t[2] = "Z"
                  THEN IF DayOf(t[1]) + 1 > LastDay THEN Raised
                       ELSE Returned(Some(DayOf(t[1]) + 1))
             ELSE IF k # 0 /\ t[k] \in DayChars THEN Returned(Some(DayOf(t[k])))
             ELSE Returned(Some(now))

----
\* Feed parser: the item loop of fetch_rss_feed (lines 239-345).

\* re.sub(r'<[^>]+>', '', text)
\* A "<" opens a tag when a ">" follows with at least one other character
\* in between; the text before the "<" is copied in one step.
RECURSIVE RemoveTags(_)
RemoveTags(s) ==
    LET k == FirstIndex(s, "<")
        rest == SubSeq(s, k + 1, Len(s))
        e == FirstIndex(rest, ">")
    IN  IF k = 0 THEN s
        ELSE IF e >= 2
             THEN SubSeq(s, 1, k - 1) \o RemoveTags(SubSeq(rest, e + 1, Len(rest)))
             ELSE SubSeq(s, 1, k) \o RemoveTags(rest)

\* clean_html(text), for text without entities and CDATA markers.
clean_html(text) == IF text = <<>> THEN <<>> ELSE SplitJoin(RemoveTags(text))

\* The text of the first element, in xpath order, that exists and has text.
RECURSIVE FirstText(_)
FirstText(cands) ==
    IF cands = <<>> THEN <<>>
    ELSE IF Head(cands) # <<>> THEN Head(cands)
    ELSE FirstText(Tail(cands))

\* Lines 268-283: the first link candidate that gives a non-empty link.
RECURSIVE ResolveLink(_)
ResolveLink(cands) ==
    IF cands = <<>> THEN <<>>
    ELSE LET elem == Head(cands)
             link == IF elem.text # <<>> THEN Strip(elem.text)
                     ELSE IF elem.href # None THEN Strip(elem.href[1])
                     ELSE <<>>
         IN  IF link # <<>> THEN link ELSE ResolveLink(Tail(cands))

\* str(hash(title)): the same text for the same title within a process.
HashText(title) == <<"h">> \o title

NoLink == <<"n", "o", "-", "l", "i", "n", "k", "-">>

\* f"no-link-{hash(title)}"
placeholder_link(title) == NoLink \o HashText(title)

\* One pass of the loop of lines 247-342 over element i: the entries it
\* appends to parsed_items (none when the item is skipped or raises).
ParseItem(item, i, now) ==
    LET title == clean_html(FirstText(item.titles))
        found == ResolveLink(item.links)
        link == IF found = <<>> THEN placeholder_link(title) ELSE found
        summary == clean_html(FirstText(item.summaries))
        pub_date_str == FirstText(item.dates)
        parsed == parse_rss_date(pub_date_str, now)
    IN  IF title = <<>> THEN <<>>
        ELSE IF parsed.raises THEN <<>>
        ELSE << [title |-> title, link |-> link,
                 summary |-> Prefix(summary, SummaryLimit),
                 pub_date_str |-> pub_date_str,
                 pub_date_dt |-> parsed.value,
                 elem |-> i] >>

\* item_candidates (lines 220-237): every item element, then once more those
\* an additional location strategy finds, as positions in the document.
ItemCandidates(d) ==
    [k \in 1..Len(d) |-> k] \o SelectSeq([k \in 1..Len(d) |-> k], LAMBDA k : d[k].twice)

\* Mutant: the candidates are not deduplicated.
UniqueItems_KeepAll(cands) == cands

\* Lines 240-245: the candidates without repetitions, first occurrence kept.
RECURSIVE UniqueItems(_)
UniqueItems(cands) ==
    IF cands = <<>> THEN <<>>
    ELSE LET rest == UniqueItems(SubSeq(cands, 1, Len(cands) - 1))
             last == cands[Len(cands)]
         IN  IF last \in Range(rest) THEN rest ELSE Append(rest, last)

RECURSIVE ParseItems(_, _, _)
ParseItems(d, items, now) ==
    IF items = <<>> THEN <<>>
    ELSE ParseItem(d[Head(items)], Head(items), now) \o ParseItems(d, Tail(items), now)

\* parsed_items of a feed document that was fetched and is well-formed XML.
parsed_items(d, now) == ParseItems(d, UniqueItems(ItemCandidates(d)), now)

\* The item elements a feed document may hold: per field, the texts of the
\* elements the xpaths find, in xpath order (<<>>: no element, or no text).
RawTitles ==
    {<< <<"x">>, <<>> >>,
     << <<>>, <<"M", "o">> >>,
     << <<"<", "b", ">">>, <<"x">> >>,
     << <<>>, <<>> >>}

RawLinks ==
    {<< [text |-> La, href |-> None] >>,
     << [text |-> <<" ">>, href |-> Some(Lb)], [text |-> <<>>, href |-> Some(La)] >>,
     << [text |-> <<>>, href |-> None] >>}

RawSummaries ==
    {<< <<>> >>,
     << <<>>, <<"<", "b", ">", " ">> \o Repeat("a", SummaryLimit + 1) >>}

RawDates ==
    {<< <<>> >>, << <<"1">> >>, << <<>>, <<" ", "1", "Z">> >>, << <<"9", "Z">> >>,
     << <<"?", "1">> >>, << <<"8">> >>, << <<"?">> >>}

RawPool ==
    [titles : RawTitles, links : RawLinks, summaries : RawSummaries,
     dates : RawDates, twice : BOOLEAN]

ParseInit ==
    /\ today = 1
    /\ config = Config(rss_feeds, 1, 2, 15, "selenium")
    /\ postedFile = <<>>
    /\ runs = 1
    /\ pc = "parse_input"
    /\ feeds = <<>>
    /\ ranked = <<>>
    /\ selected = <<>>
    /\ idx = 0
    /\ tweet_text = "none"
    /\ success = FALSE
    /\ postResult = "none"
    /\ pubKind = "none"
    /\ logCalls = <<>>
    /\ sleeps = 0
    /\ composed = <<>>
    /\ loadDay = 0
    /\ posted_links = {}
    /\ loadOk = TRUE
    /\ raised = {}
    /\ recorded = {}
    /\ model = [kind |-> "none"]
    /\ doc = <<>>
    /\ stack = <<>>
    /\ fetches = 0

\* One more item element in the document the feed answers with.
AddItem ==
    /\ pc = "parse_input"
    /\ Len(doc) < MaxArticles
    /\ \E item \in RawPool : doc' = Append(doc, item)
    /\ UNCHANGED <<today, config, postedFile, runs, pc, feeds, ranked, selected, idx,
                   tweet_text, success, postResult, pubKind, logCalls, sleeps,
                   composed, raised, loadDay, posted_links, loadOk, recorded, model,
                   stack, fetches>>

\* fetch_rss_feed(url) on a document that was fetched and parsed as XML.
ParseFeed ==
    /\ pc = "parse_input"
    /\ feeds' = <<[status |-> "ok", entries |-> parsed_items(doc, today)]>>
    /\ pc' = "parsed"
    /\ UNCHANGED <<today, config, postedFile, runs, ranked, selected, idx,
                   tweet_text, success, postResult, pubKind, logCalls, sleeps,
                   composed, raised, loadDay, posted_links, loadOk, recorded,
                   model, doc,
                   stack, fetches>>

ParseNext ==
    \/ AddItem
    \/ ParseFeed

ParseSpec == ParseInit /\ [][ParseNext]_vars

----
\* HTML fallback of the feed parser: fetch_rss_feed() and
\* extract_rss_from_html() calling each other, on the interpreter's call stack.

\* sys.getrecursionlimit(), scaled down: a call that would make the stack
\* deeper than this raises RecursionError in the caller.
RecursionLimit == 8

Chars(a, b, c, d) == <<a, b, c, d>>

\* re.IGNORECASE on the alphabet of the model's hrefs.
FoldChar(c) == IF c = "F" THEN "f" ELSE LowerChar(c)

Fold(s) == [k \in 1..Len(s) |-> FoldChar(s[k])]

StartsWith(s, p) == Len(s) >= Len(p) /\ SubSeq(s, 1, Len(p)) = p

\* r'[^"\']+PAT[^"\']*' matches the whole href value: PAT occurs in it after
\* at least one character.
HrefMatches(href, pat) ==
    \E k \in 2..(Len(href) - Len(pat) + 1) :
        SubSeq(Fold(href), k, k + Len(pat) - 1) = pat

\* The three patterns of lines 361-363, in the order their matches are gathered.
HrefPatterns == << <<".", "r", "s">>, Chars("f", "e", "e", "d"), <<"x", "m", "l">> >>

\* rss_links: the matches of the first pattern, then of the second, then of
\* the third, each in document order (a page is the sequence of its hrefs).
rss_links(page) ==
    LET Found(n) == LET Test(h) == HrefMatches(h, HrefPatterns[n])
                    IN  SelectSeq(page, Test)
    IN  Found(1) \o Found(2) \o Found(3)

\* '/'.join(url.split('/')[:3])
base_url(url) ==
    LET i1 == FirstIndex(url, "/")
        r1 == SubSeq(url, i1 + 1, Len(url))
        i2 == FirstIndex(r1, "/")
        r2 == SubSeq(r1, i2 + 1, Len(r1))
        i3 == FirstIndex(r2, "/")
    IN  IF i1 = 0 \/ i2 = 0 \/ i3 = 0 THEN url
        ELSE SubSeq(url, 1, i1 + i2 + i3 - 1)

\* Lines 366-374 for one link.
absolute_link(link, url) ==
    IF StartsWith(link, Chars("h", "t", "t", "p")) THEN link
    ELSE IF StartsWith(link, <<"/">>) THEN base_url(url) \o link
    ELSE base_url(url) \o <<"/">> \o link

\* http://h
HostH == Chars("h", "t", "t", "p") \o <<":", "/", "/", "h">>

\* The feed URLs of the configuration: http://h/feed and http://h/p
FeedUrls == {HostH \o <<"/">> \o Chars("f", "e", "e", "d"), HostH \o <<"/", "p">>}

\* href values of a page: /feed, /Feed, a.rss, feed (matches no pattern),
\* http://h/p (matches no pattern).
HrefPool ==
    {<<"/">> \o Chars("f", "e", "e", "d"),
     <<"/">> \o Chars("F", "e", "e", "d"),
     Chars("a", ".", "r", "s") \o <<"s">>,
     Chars("f", "e", "e", "d"),
     HostH \o <<"/", "p">>}

MaxHrefs == 2

Pages == SeqsUpTo(HrefPool, MaxHrefs)

\* What requests.get() and the parsing of the body can give: an HTML page, an
\* XML document with its items, a body that is no XML, a request that fails
\* (connection error, timeout after 20 s, HTTP error status). requests.get is
\* taken to return or raise.
Responses ==
    {[kind |-> "html", page |-> p, entries |-> <<>>] : p \in Pages}
    \cup {[kind |-> "xml", page |-> <<>>, entries |-> e] :
            e \in {<<>>, <<Entry(TitlePlain, La, <<>>, Some(1))>>}}
    \cup {[kind |-> k, page |-> <<>>, entries |-> <<>>] : k \in {"not_xml", "network"}}

Frame(fn, url, page) == [fn |-> fn, url |-> url, page |-> page]

\* The frames below the parser: <module>, main(), fetch_and_rank_news().
CallerFrames ==
    << Frame("module", <<>>, <<>>), Frame("main", <<>>, <<>>),
       Frame("fetch_and_rank_news", <<>>, <<>>) >>

Top == stack[Len(stack)]

\* Mutant: the interpreter puts no limit on the depth of the stack.
CanCall_Unlimited(st) == TRUE

\* A further Python-level call is possible from the top frame.
CanCall(st) == Len(st) < RecursionLimit

\* {'entries': []}
NoEntries == [status |-> "network", entries |-> <<>>]

FetchInit ==
    /\ today = 1
    /\ config = Config(rss_feeds, 1, 2, 15, "selenium")
    /\ postedFile = <<>>
    /\ runs = 1
    /\ pc = "request"
    /\ feeds = <<>>
    /\ ranked = <<>>
    /\ selected = <<>>
    /\ idx = 0
    /\ tweet_text = "none"
    /\ success = FALSE
    /\ postResult = "none"
    /\ pubKind = "none"
    /\ logCalls = <<>>
    /\ sleeps = 0
    /\ composed = <<>>
    /\ loadDay = 0
    /\ posted_links = {}
    /\ loadOk = TRUE
    /\ raised = {}
    /\ recorded = {}
    /\ model = [kind |-> "none"]
    /\ doc = <<>>
    /\ \E url \in FeedUrls :
         stack = Append(CallerFrames, Frame("fetch_rss_feed", url, <<>>))
    /\ fetches = 0

\* Lines 178-345 of the top fetch_rss_feed frame: the request, then either the
\* call of extract_rss_from_html (HTML content type) or the parsing as XML.
\* requests.get and extract_rss_from_html are calls: they raise RecursionError
\* when the stack is full.
Request ==
    /\ pc = "request"
    /\ IF ~CanCall(stack)
       THEN /\ raised' = raised \cup {<<Len(stack), "recursion">>}
            /\ pc' = "handler"
            /\ UNCHANGED <<stack, fetches, feeds>>
       ELSE /\ fetches' = fetches + 1
            /\ \E resp \in Responses :
                 CASE resp.kind = "html" ->
                        /\ stack' = Append(stack, Frame("extract_rss_from_html", Top.url, resp.page))
                        /\ pc' = "scan"
                        /\ UNCHANGED <<feeds, raised>>
                   [] resp.kind = "xml" ->
                        /\ feeds' = <<[status |-> "ok", entries |-> resp.entries]>>
                        /\ pc' = "return"
                        /\ UNCHANGED <<stack, raised>>
                   [] OTHER ->
                        /\ raised' = raised \cup {<<Len(stack), resp.kind>>}
                        /\ pc' = "handler"
                        /\ UNCHANGED <<stack, feeds>>
    /\ UNCHANGED <<today, config, postedFile, runs, ranked, selected, idx,
                   tweet_text, success, postResult, pubKind, logCalls, sleeps,
                   composed, loadDay, posted_links, loadOk, recorded, model, doc>>

\* Lines 359-384 of the top extract_rss_from_html frame: gather the candidate
\* links and call fetch_rss_feed on the first, or return no entries.
Scan ==
    /\ pc = "scan"
    /\ IF ~CanCall(stack)
       THEN /\ raised' = raised \cup {<<Len(stack), "recursion">>}
            /\ pc' = "handler"
            /\ UNCHANGED <<stack, feeds>>
       ELSE LET links == rss_links(Top.page)
            IN  IF links = <<>>
                THEN /\ feeds' = <<NoEntries>>
                     /\ pc' = "return"
                     /\ UNCHANGED <<stack, raised>>
                ELSE /\ stack' = Append(stack, Frame("fetch_rss_feed",
                                                     absolute_link(links[1], Top.url), <<>>))
                     /\ pc' = "request"
                     /\ UNCHANGED <<feeds, raised>>
    /\ UNCHANGED <<today, config, postedFile, runs, ranked, selected, idx,
                   tweet_text, success, postResult, pubKind, logCalls, sleeps,
                   composed, loadDay, posted_links, loadOk, recorded, model, doc,
                   fetches>>

\* An exception reached the try of the top frame (lines 347-355, 382-384,
\* 619-620): its except branch prints and the frame returns no entries; on a
\* full stack the branch itself may raise RecursionError, which then reaches
\* the try of the calling frame.
Handler ==
    /\ pc = "handler"
    /\ \/ /\ feeds' = <<NoEntries>>
          /\ pc' = IF Top.fn = "fetch_and_rank_news" THEN "fetched" ELSE "return"
          /\ UNCHANGED stack
       \/ /\ ~CanCall(stack)
          /\ stack' = SubSeq(stack, 1, Len(stack) - 1)
          /\ UNCHANGED <<feeds, pc>>
    /\ UNCHANGED <<today, config, postedFile, runs, ranked, selected, idx,
                   tweet_text, success, postResult, pubKind, logCalls, sleeps,
                   composed, loadDay, posted_links, loadOk, raised, recorded,
                   model, doc, fetches>>

\* The top frame returns its value to its caller, which returns it in turn
\* (lines 196 and 379) until fetch_and_rank_news has it (line 550).
Return ==
    /\ pc = "return"
    /\ stack' = SubSeq(stack, 1, Len(stack) - 1)
    /\ pc' = IF stack'[Len(stack')].fn = "fetch_and_rank_news" THEN "fetched" ELSE "return"
    /\ UNCHANGED <<today, config, postedFile, runs, feeds, ranked, selected, idx,
                   tweet_text, success, postResult, pubKind, logCalls, sleeps,
                   composed, loadDay, posted_links, loadOk, raised, recorded,
                   model, doc, fetches>>

FetchNext ==
    \/ Request
    \/ Scan
    \/ Handler
    \/ Return

FetchSpec == FetchInit /\ [][FetchNext]_vars

\* The interpreter keeps executing the call.
FetchFairSpec == FetchSpec /\ WF_vars(FetchNext)

----
\* Configuration loading: load_config() and the check main() makes on its
\* result, followed by the run.

DEFAULT_CONFIG == Config(rss_feeds, 3, 2, 15, "selenium")

\* A bot_config.json written by the operator.
PersistedConfig == Config(rss_feeds, 1, 2, 15, "api")

\* JSON values that are no configuration object: {} and a non-empty list.
EmptyObject == [shape |-> "empty"]
JsonList == [shape |-> "list"]

\* `config` before load_config() has returned.
Unloaded == [shape |-> "unloaded"]

\* What CONFIG_FILE is: absent, not readable, not JSON, or JSON of some value.
ConfigStores ==
    {[kind |-> k, value |-> Unloaded] : k \in {"absent", "unreadable", "unparsable"}}
    \cup {[kind |-> "json", value |-> v] : v \in {PersistedConfig, EmptyObject, JsonList}}

\* load_config(): json.load's value is returned as it is; persistOk = FALSE is
\* the failure of writing the default file.
load_config(store, persistOk) ==
    CASE store.kind = "json" -> store.value
      [] store.kind = "absent" -> IF persistOk THEN DEFAULT_CONFIG     \* line 400
                                               ELSE DEFAULT_CONFIG     \* line 403
      [] OTHER -> DEFAULT_CONFIG                                       \* line 403

\* The value is a dict fetch_and_rank_news can call .get on with the value
\* types it expects.
IsConfigObject(c) == "shape" \notin DOMAIN c

\* Python's `not config`.
Falsy(c) == ~IsConfigObject(c) /\ c.shape = "empty"

ConfigInit ==
    /\ today = 1
    /\ config = Unloaded
    /\ postedFile = <<>>
    /\ runs = 0
    /\ pc = "load_config"
    /\ feeds = <<>>
    /\ ranked = <<>>
    /\ selected = <<>>
    /\ idx = 0
    /\ tweet_text = "none"
    /\ success = FALSE
    /\ postResult = "none"
    /\ pubKind = "none"
    /\ logCalls = <<>>
    /\ sleeps = 0
    /\ composed = <<>>
    /\ loadDay = 0
    /\ posted_links = {}
    /\ loadOk = TRUE
    /\ raised = {}
    /\ recorded = {}
    /\ model = [kind |-> "none"]
    /\ doc = <<>>
    /\ stack = <<>>
    /\ fetches = 0

\* Line 643: config = load_config()
LoadConfig ==
    /\ pc = "load_config"
    /\ \E store \in ConfigStores, persistOk \in BOOLEAN :
         config' = load_config(store, persistOk)
    /\ pc' = "check_config"
    /\ UNCHANGED <<today, postedFile, runs, feeds, ranked, selected, idx,
                   tweet_text, success, postResult, pubKind, logCalls, sleeps,
                   composed, raised, loadDay, posted_links, loadOk, recorded>>
    /\ UNCHANGED <<model, doc, stack, fetches>>

\* Lines 644-649: main() returns on a falsy config; otherwise it calls
\* fetch_and_rank_news(config), whose first config.get (line 530) raises
\* AttributeError on a value that is no dict, and nothing in main() catches it.
CheckConfig ==
    /\ pc = "check_config"
    /\ IF Falsy(config)
       THEN pc' = "done" /\ UNCHANGED runs
       ELSE IF ~IsConfigObject(config)
            THEN pc' = "crashed" /\ UNCHANGED runs
            ELSE pc' = "fetch" /\ runs' = runs + 1
    /\ UNCHANGED <<today, config, postedFile, feeds, ranked, selected, idx,
                   tweet_text, success, postResult, pubKind, logCalls, sleeps,
                   composed, raised, loadDay, posted_links, loadOk, recorded>>
    /\ UNCHANGED <<model, doc, stack, fetches>>

ConfigNext ==
    \/ LoadConfig
    \/ CheckConfig
    \/ RunStep
    \/ PressEnter

ConfigSpec == ConfigInit /\ [][ConfigNext]_vars
----
\* Properties.

RankedLinks == {ranked[k].link : k \in 1..Len(ranked)}

\* main() is past fetch_and_rank_news in the current run.
Ranked == pc \notin {"idle", "fetch", "rank_input"}

\* C1: a link that an earlier run published, got a success signal for and
\* recorded in the ledger on some date is not in the ranked output of a later
\* run on that date (here: of a later run that read the ledger without error).
C1_RecordedLinkNotRankedAgain ==
    (Ranked /\ loadOk) =>
        \A r \in recorded :
            (r.run < runs /\ r.day = loadDay) => r.link \notin RankedLinks

\* The entries gathered in this run, as <<feed, entry>> positions; first seen
\* is the order by feed, then by entry.
GatheredPos ==
    UNION {{<<f, k>> : k \in 1..Len(fetch_rss_feed(feeds[f]))} :
             f \in {g \in 1..Len(feeds) : config.rss_feeds[g].url # "None"}}

EntryAt(p) == feeds[p[1]].entries[p[2]]

SeenBefore(p, q) == p[1] < q[1] \/ (p[1] = q[1] /\ p[2] < q[2])

NoTwoWithSameLink ==
    \A j, k \in 1..Len(ranked) : ranked[j].link = ranked[k].link => j = k

\* An entry the date filters and the title filter let through.
PassesFilters(e) ==
    /\ e.pub_date_dt # None
    /\ e.pub_date_dt[1] >= today - (config.max_news_age_days - 1)
    /\ Strip(e.title) # <<>>

\* C2 as stated: the ranked output holds no link twice, and the entry that
\* survives for a link is the first gathered entry with that link.
C2_FirstGatheredSurvives ==
    pc = "ranked" =>
        /\ NoTwoWithSameLink
        /\ \A k \in 1..Len(ranked) : \A p \in GatheredPos :
              EntryAt(p).link = ranked[k].link => ~SeenBefore(p, ranked[k].src)

\* C2 as amended: the ranked output holds no link twice, and the entry that
\* survives for a link is the first gathered entry with that link among those
\* that have a publish date not older than the cutoff and a non-empty title.
C2_FirstAcceptedSurvives ==
    pc = "ranked" =>
        /\ NoTwoWithSameLink
        /\ \A k \in 1..Len(ranked) :
              /\ ranked[k].src \in GatheredPos
              /\ EntryAt(ranked[k].src).link = ranked[k].link
              /\ \A p \in GatheredPos :
                    (EntryAt(p).link = ranked[k].link /\ PassesFilters(EntryAt(p)))
                        => ~SeenBefore(p, ranked[k].src)

\* Two gathered entries that pass the filters share a link, and it is ranked.
C2_Witness ==
    /\ pc = "ranked"
    /\ \E p, q \in GatheredPos :
          /\ p # q
          /\ EntryAt(p).link = EntryAt(q).link
          /\ PassesFilters(EntryAt(p))
          /\ PassesFilters(EntryAt(q))
          /\ EntryAt(p).link \in RankedLinks

\* Feed f contributes nothing: its url is missing or its fetch or parse failed.
Failing(f) == config.rss_feeds[f].url = "None" \/ feeds[f].status \in FailStatus

\* The same run with every failing feed replaced by a reachable, empty feed.
FailingAsEmpty ==
    [f \in 1..Len(feeds) |->
        IF Failing(f) THEN [status |-> "ok", entries |-> <<>>] ELSE feeds[f]]

ConfigAllReachable ==
    [config EXCEPT !.rss_feeds =
        [f \in 1..Len(config.rss_feeds) |-> [config.rss_feeds[f] EXCEPT !.url = "u"]]]

SurvivorsOf(answers, cfg) ==
    LET env == [config |-> cfg, today |-> today, posted_links |-> posted_links,
                jitter |-> [p \in Positions(answers) |-> 0]]
        found == all_news(answers, env)
    IN  {found[k].src : k \in 1..Len(found)}

\* C10: a failing feed contributes no entry, and the surviving articles are
\* those of the run in which every failing feed is an empty feed instead.
C10_FailingFeedIsEmptyFeed ==
    pc = "ranked" =>
        /\ \A k \in 1..Len(ranked) : ~Failing(ranked[k].src[1])
        /\ {ranked[k].src : k \in 1..Len(ranked)}
              = SurvivorsOf(FailingAsEmpty, ConfigAllReachable)

\* A failing feed whose answer held an entry, while the other feed got an
\* article with that entry's link ranked.
C10_Witness ==
    /\ pc = "ranked"
    /\ \E f \in 1..Len(feeds) :
          /\ Failing(f)
          /\ \E k \in 1..Len(feeds[f].entries) :
                /\ PassesFilters(feeds[f].entries[k])
                /\ feeds[f].entries[k].link \in RankedLinks

\* The article at idx is being processed (generate_tweet has been called for it).
InArticle == pc \in {"post", "session", "input", "quit", "log", "save", "delay", "except"}

\* idx names a selected article whose processing has started.
AtArticle == (InArticle \/ pc = "done") /\ idx \in 1..Len(selected)

\* The selected articles whose loop pass is over.
Finished == {i \in 1..Len(selected) : i < idx \/ pc = "done"}

RecordedInRun(link) == \E r \in recorded : r.run = runs /\ r.link = link

\* C3: the ledger file changes only by main() appending the line of the
\* article whose post_tweet call returned success; the link of an article
\* whose post_tweet call raised is not recorded in that run.
C3_LedgerAppendOnlyOnSuccess ==
    /\ [][postedFile' # postedFile =>
            /\ pc = "save"
            /\ postResult = "true"
            /\ success
            /\ postedFile' = postedFile \o LedgerLine(today, news.link)]_vars
    /\ []((AtArticle /\ postResult = "raise") => ~RecordedInRun(news.link))

\* The first article's post raised and was not recorded; the second one's
\* post succeeded and its link was recorded.
C3_Witness ==
    /\ pc = "delay"
    /\ idx = 2
    /\ <<1, "publish">> \in raised
    /\ ~RecordedInRun(selected[1].link)
    /\ postResult = "true"
    /\ RecordedInRun(news.link)

\* C4 as stated: every selected article whose pass is over has an entry in
\* the audit log file.
C4_AuditEntryWritten ==
    \A i \in Finished :
        \E k \in 1..Len(tweetLog) :
            tweetLog[k].i = i /\ tweetLog[k].link = selected[i].link

\* C4 as amended: log_tweet has been called for every selected article whose
\* pass is over, whatever the outcome; the file holds the entries of the
\* calls whose read-modify-write did not fail.
C4_LogTweetCalled ==
    /\ \A i \in Finished :
          \E k \in 1..Len(logCalls) :
              logCalls[k].i = i /\ logCalls[k].link = selected[i].link
    /\ \A k \in 1..Len(logCalls) :
          logCalls[k].written =>
              \E j \in 1..Len(tweetLog) : tweetLog[j] = logCalls[k]

\* The post of the first article raised, the second article is being
\* processed, and the first one's ERROR entry is in the file.
C4_Witness ==
    /\ idx = 2
    /\ <<1, "publish">> \in raised
    /\ \E k \in 1..Len(tweetLog) :
          tweetLog[k].i = 1 /\ tweetLog[k].tweet = "ERROR" /\ ~tweetLog[k].success

\* generate_tweet was called for the articles 1, 2, ... in this order, and
\* for all selected ones once the run is over.
AttemptedInOrder ==
    /\ composed = [k \in 1..Len(composed) |-> k]
    /\ (pc = "done" /\ ranked # <<>>) => Len(composed) = Len(selected)
    /\ InArticle => Len(composed) = idx

\* C5 as stated: every exception raised while an article is processed
\* (publish, logging, ledger write, delay) leaves a success=false entry for
\* that article in the audit log, and every selected article is attempted.
C5_EveryExceptionLoggedAsFailure ==
    /\ \A i \in Finished :
          (\E w \in {"publish", "delay", "log", "ledger"} : <<i, w>> \in raised) =>
              \E k \in 1..Len(tweetLog) : tweetLog[k].i = i /\ ~tweetLog[k].success
    /\ AttemptedInOrder

\* C5 as amended: an exception that escapes post_tweet or time.sleep is caught
\* in main(), which calls log_tweet(..., "ERROR", success=False) for that
\* article; an exception inside log_tweet or save_posted_link is swallowed
\* there and adds no failed attempt; every selected article is attempted in
\* ranked order.
C5_EscapedExceptionHandled ==
    /\ \A i \in Finished :
          LET errors == {k \in 1..Len(logCalls) :
                            /\ logCalls[k].i = i
                            /\ logCalls[k].tweet = "ERROR"
                            /\ ~logCalls[k].success}
          IN  IF <<i, "publish">> \in raised \/ <<i, "delay">> \in raised
              THEN errors # {}
              ELSE errors = {}
    /\ AttemptedInOrder

\* Two articles were selected, the post of the first one raised, and the
\* second one was attempted all the same.
C5_Witness ==
    /\ pc = "done"
    /\ Len(selected) = 2
    /\ <<1, "publish">> \in raised
    /\ composed = <<1, 2>>

\* The publisher failed for the article at idx, or could not confirm the post.
PublishError == postResult = "raise" \/ pubKind \in {"unconfirmed", "error"}

LogCallsOf(i) == {k \in 1..Len(logCalls) : logCalls[k].i = i}

\* C6 as stated: after a PublishError no log_tweet call for the article says
\* success, and its link is not recorded.
C6_PublishErrorLoggedUnsuccessful ==
    (AtArticle /\ pc \in {"save", "delay", "done"} /\ PublishError) =>
        /\ \A k \in LogCallsOf(idx) : ~logCalls[k].success
        /\ ~RecordedInRun(news.link)

\* C6 as amended: a publisher failure that reaches main() as an exception
\* (the browser cannot be set up, or closing it fails) is logged with
\* success=False and the link is not recorded; a failure inside the browser
\* session, or a post that could not be confirmed, makes post_tweet return
\* True, and the attempt is logged with success=True.
C6_OnlyEscapedFailureLoggedUnsuccessful ==
    /\ (AtArticle /\ postResult = "raise") =>
          /\ \A k \in LogCallsOf(idx) : ~logCalls[k].success /\ logCalls[k].tweet = "ERROR"
          /\ pc = "done" => LogCallsOf(idx) # {}
          /\ ~RecordedInRun(news.link)
    /\ (pc \in {"log", "save", "delay"} /\ pubKind \in SessionKinds) =>
          /\ success
          /\ postResult = "true"
          /\ pc \in {"save", "delay"} =>
                \E k \in LogCallsOf(idx) :
                    logCalls[k].success /\ logCalls[k].tweet = tweet_text

\* The post could not be confirmed, and the attempt was logged as a success
\* and the link recorded.
C6_Witness ==
    /\ pc = "delay"
    /\ pubKind = "unconfirmed"
    /\ \E k \in LogCallsOf(idx) : logCalls[k].success
    /\ RecordedInRun(news.link)

\* C7: with a valid (non-negative) delay configured, one delay has been
\* waited before each article after the first, and none after the last.
C7_DelayBetweenArticles ==
    config.tweet_delay_seconds >= 0 =>
        /\ (InArticle \/ pc = "compose") => sleeps = idx - 1
        /\ (pc = "done" /\ selected # <<>>) => sleeps = Len(selected) - 1

\* C8: the selection is the first tweets_per_run entries of the ranked
\* sequence (none for a value below 1, all when fewer exist), never more than
\* tweets_per_run; an empty ranked sequence ends the run with nothing composed,
\* logged or recorded.
C8_SelectsFirstN ==
    pc \in {"compose", "post", "session", "input", "quit", "log", "save",
            "delay", "except", "done"} =>
        LET n == config.tweets_per_run
            m == IF n < Len(ranked) THEN n ELSE Len(ranked)
        IN  /\ ranked # <<>> =>
                /\ selected = SubSeq(ranked, 1, IF m < 0 THEN 0 ELSE m)
                /\ Len(composed) <= (IF n < 0 THEN 0 ELSE n)
            /\ ranked = <<>> =>
                /\ pc = "done"
                /\ composed = <<>>
                /\ logCalls = <<>>
                /\ \A r \in recorded : r.run # runs

\* C9: every started run reaches the end of main().
C9_RunReachesDone == (pc = "fetch") ~> (pc = "done")

\* The entries that survive the filters and the deduplication, as positions.
Survivors == SurvivorsOf(feeds, config)

\* C11: the ranked sequence holds every surviving article once and nothing
\* else, its scores do not increase, and two articles of equal score are in
\* first-seen order.
C11_SortedStablePermutation ==
    pc = "ranked" =>
        /\ {ranked[k].src : k \in 1..Len(ranked)} = Survivors
        /\ Len(ranked) = Cardinality(Survivors)
        /\ \A j, k \in 1..Len(ranked) :
              j < k =>
                 /\ ranked[j].score >= ranked[k].score
                 /\ ranked[j].score = ranked[k].score
                        => SeenBefore(ranked[j].src, ranked[k].src)

\* Two articles of different feeds and different content got the same score,
\* and the one seen first is ranked first.
C11_Witness ==
    /\ pc = "ranked"
    /\ Len(ranked) = 2
    /\ ranked[1].score = ranked[2].score
    /\ ranked[1].src[1] # ranked[2].src[1]
    /\ ranked[1].title # ranked[2].title
    /\ SeenBefore(ranked[1].src, ranked[2].src)

\* kw occurs in text, letter case ignored.
OccursIn(kw, text) ==
    \E i \in 0..(Len(text) - Len(kw)) :
        \A j \in 1..Len(kw) : LowerChar(text[i + j]) = LowerChar(kw[j])

\* 2 * keywordScore + categoryScore + recencyBonus of a ranked article.
DeterministicScore(a) ==
    LET text == a.title \o <<" ">> \o a.summary
        keywordScore == Cardinality({i \in 1..Len(config.priority_keywords) :
                                        OccursIn(config.priority_keywords[i], text)})
        categoryScore == IF a.category \in DOMAIN config.category_weights
                         THEN config.category_weights[a.category] ELSE 1
        recencyBonus == IF a.pub_date = today THEN 1 ELSE 0
    IN  2 * keywordScore + categoryScore + recencyBonus

\* C12: the score of every ranked article is 2 * keywordScore + categoryScore
\* + recencyBonus plus a jitter in [0, 0.5) (scores are in quarters: the
\* jitter is 0 or 1 quarter).
C12_ScoreFormula ==
    pc = "ranked" =>
        \A k \in 1..Len(ranked) :
            (ranked[k].score - 4 * DeterministicScore(ranked[k])) \in 0..1

\* A ranked article dated today, of an unlisted category, with a keyword that
\* matches only when letter case is ignored, next to one with no bonus.
C12_Witness ==
    /\ pc = "ranked"
    /\ \E j, k \in 1..Len(ranked) :
          /\ ranked[j].category = "general"
          /\ ranked[j].pub_date = today
          /\ ranked[j].title = TitlePlain
          /\ ranked[j].summary = <<"O">>
          /\ ranked[j].score = 4 * (2 + 1 + 1) + 1
          /\ ranked[k].pub_date # today
          /\ ranked[k].summary = <<>>

\* C13: an article with the greater deterministic score is ranked first,
\* whatever the two jitter draws.
C13_JitterNeverReorders ==
    pc = "ranked" =>
        \A j, k \in 1..Len(ranked) :
            DeterministicScore(ranked[j]) > DeterministicScore(ranked[k]) => j < k

\* The article with the smaller deterministic score drew the larger jitter,
\* was seen first, and is ranked second all the same.
C13_Witness ==
    /\ pc = "ranked"
    /\ Len(ranked) = 2
    /\ DeterministicScore(ranked[1]) = DeterministicScore(ranked[2]) + 1
    /\ ranked[1].score = 4 * DeterministicScore(ranked[1])
    /\ ranked[2].score = 4 * DeterministicScore(ranked[2]) + 1
    /\ SeenBefore(ranked[2].src, ranked[1].src)

\* C14: every ranked article has a publish date not older than
\* today - (max_news_age_days - 1), a non-empty title, a non-empty link, and a
\* link that load_posted_links did not return.
C14_RankedPassFilters ==
    pc = "ranked" =>
        \A k \in 1..Len(ranked) :
            /\ ranked[k].pub_date >= today - (config.max_news_age_days - 1)
            /\ ranked[k].title # <<>>
            /\ ranked[k].link # <<>>
            /\ ranked[k].link \notin load_posted_links(postedFile, today, loadOk)

\* With max_news_age_days = 2 the feeds held an article dated two days ago
\* and a fresh article with the same link; today's ledger holds another link;
\* only the fresh article is ranked.
C14_Witness ==
    /\ pc = "ranked"
    /\ config.max_news_age_days = 2
    /\ loadOk
    /\ posted_links # {}
    /\ Len(ranked) = 1
    /\ ranked[1].pub_date = today - 1
    /\ \E p \in GatheredPos :
          /\ EntryAt(p).pub_date_dt = Some(today - 2)
          /\ EntryAt(p).link = ranked[1].link

\* The collaborator is not configured or throws when called.
ModelFails == model.kind \in {"none", "throws"}

\* C15 as stated: the composed text has at most 280 characters, and when the
\* collaborator is unavailable or throws it is the first 200 characters of
\* the title + "... #" + category + " #News", cut to 280.
C15_FallbackUsesCategory ==
    pc = "post" =>
        /\ Len(tweet_text) <= TweetLimit
        /\ ModelFails =>
              tweet_text = Prefix(Prefix(news.title, TitleLimit) \o Dots \o <<" ", "#">>
                                      \o news.category \o NewsTag,
                                  TweetLimit)

\* C15 as amended: the composed text has at most 280 characters, and when the
\* collaborator is unavailable or throws it is the first 200 characters of
\* the title + "... #" + the category with its first character in upper case
\* and the others in lower case + " #News", cut to 280.
C15_FallbackUsesCapitalizedCategory ==
    pc = "post" =>
        /\ Len(tweet_text) <= TweetLimit
        /\ ModelFails =>
              LET first == IF news.category = <<>> THEN <<>>
                           ELSE <<UpperChar(news.category[1])>>
                  rest == [k \in 1..(Len(news.category) - 1) |->
                              LowerChar(news.category[k + 1])]
                  whole == Prefix(news.title, TitleLimit) \o Dots \o <<" ", "#">>
                               \o first \o rest \o NewsTag
              IN  tweet_text = SubSeq(whole, 1, IF Len(whole) < TweetLimit
                                                   THEN Len(whole) ELSE TweetLimit)

\* The collaborator threw, the title was longer than 200 characters, and the
\* fallback for the category "oM" reads "... #Om #News" after 200 characters.
C15_Witness ==
    /\ pc = "post"
    /\ model.kind = "throws"
    /\ Len(news.title) = TitleLimit + 1
    /\ news.category = <<"o", "M">>
    /\ Len(tweet_text) = TitleLimit + 13
    /\ SubSeq(tweet_text, TitleLimit + 1, TitleLimit + 7) = <<".", ".", ".", " ", "#", "O", "m">>

\* The entries fetch_rss_feed returned for the document.
Entries == feeds[1].entries

EntriesOf(i) == {k \in 1..Len(Entries) : Entries[k].elem = i}

\* The timestamp text of item i, and whether a title can be resolved for it.
RawDate(i) == FirstText(doc[i].dates)

HasTitle(i) == clean_html(FirstText(doc[i].titles)) # <<>>

\* No known format matches and no calendar date can be recovered from raw.
Unparseable(raw) == \A k \in 1..Len(raw) : raw[k] \notin DayChars

\* C16: for every item that has a title and a non-empty timestamp string the
\* date normalizer returns a timestamp (the item becomes an entry whose
\* pub_date_dt is not None), and when the string is unparseable that timestamp
\* is the current time, so the article is dated today.
C16_NonEmptyTimestampNormalized ==
    pc = "parsed" =>
        \A i \in 1..Len(doc) :
            (HasTitle(i) /\ RawDate(i) # <<>>) =>
                /\ EntriesOf(i) # {}
                /\ \A k \in EntriesOf(i) :
                      /\ Entries[k].pub_date_dt # None
                      /\ Unparseable(RawDate(i)) => Entries[k].pub_date_dt = Some(today)

\* Item i has no link element with text or href that is not blank.
NoLinkFound(i) ==
    \A c \in 1..Len(doc[i].links) :
        /\ Strip(doc[i].links[c].text) = <<>>
        /\ doc[i].links[c].href = None \/ Strip(doc[i].links[c].href[1]) = <<>>

\* Parsing item i raises (its timestamp cannot be converted to IST).
ItemRaises(i) == Strip(RawDate(i)) = <<"9", "Z">>

\* C19: every entry the feed parser returns has a non-empty title, a non-empty
\* link and a summary of at most 500 characters; an item without resolvable
\* title gives no entry; an item without link gets a placeholder that is the
\* same for the same title; an item element gives at most one entry; and an
\* item that parses gives its entry whatever happens to the other items.
C19_ParsedEntriesWellFormed ==
    pc = "parsed" =>
        /\ \A k \in 1..Len(Entries) :
              /\ Entries[k].title # <<>>
              /\ Entries[k].link # <<>>
              /\ Len(Entries[k].summary) <= SummaryLimit
        /\ \A i \in 1..Len(doc) :
              /\ Cardinality(EntriesOf(i)) <= 1
              /\ (\A c \in 1..Len(doc[i].titles) : clean_html(doc[i].titles[c]) = <<>>)
                    => EntriesOf(i) = {}
              /\ (HasTitle(i) /\ ~ItemRaises(i)) => EntriesOf(i) # {}
        /\ \A j, k \in 1..Len(Entries) :
              /\ j < k => Entries[j].elem < Entries[k].elem
              /\ NoLinkFound(Entries[j].elem) =>
                    /\ SubSeq(Entries[j].link, 1, Len(NoLink)) = NoLink
                    /\ (NoLinkFound(Entries[k].elem) /\ Entries[j].title = Entries[k].title)
                          => Entries[j].link = Entries[k].link

\* The first item raised while it was parsed; the second one, found by two
\* location strategies, has no link and a summary longer than 500 characters,
\* and became the only entry.
C19_Witness ==
    /\ pc = "parsed"
    /\ Len(doc) = 2
    /\ HasTitle(1)
    /\ ItemRaises(1)
    /\ doc[2].twice
    /\ NoLinkFound(2)
    /\ Len(FirstText(doc[2].summaries)) > SummaryLimit
    /\ Len(Entries) = 1
    /\ Entries[1].elem = 2
    /\ Len(Entries[1].summary) = SummaryLimit

----
\* Ledger round trip (load_posted_links after save_posted_link).

\* The links save_posted_link appended on the day of this run's load, in
\* earlier runs (the load precedes every append of its own run).
RecordedOnLoadDay == {r.link : r \in {x \in recorded : x.day = loadDay /\ x.run < runs}}

\* C17: a successful load_posted_links returns exactly the links recorded
\* under the current date: every link save_posted_link recorded on that date
\* is returned unchanged, and nothing recorded under another date is returned.
C17_LoadReturnsTodaysLinksUnchanged ==
    (Ranked /\ loadOk) => posted_links = RecordedOnLoadDay

----
\* Configuration loading never ends the run.

\* C18: whatever load_config() found, main() does not end before
\* fetch_and_rank_news has been carried out: the run neither returns for want
\* of a configuration nor is ended by an exception about the configuration.
C18_LoadConfigNeverAbortsRun ==
    /\ pc # "crashed"
    /\ pc = "done" => runs = 1

----
\* Audit log entries per article.

\* C20: an article whose loop pass is over has exactly one log_tweet call in
\* this run, and an article whose link was appended to the ledger in this run
\* has no success=False ("ERROR") call.
C20_OneAuditEntryPerArticle ==
    \A i \in Finished :
        /\ Cardinality(LogCallsOf(i)) = 1
        /\ RecordedInRun(selected[i].link) =>
              \A k \in LogCallsOf(i) : logCalls[k].success

----
\* Termination of the feed parser's HTML fallback.

\* The requests one fetch_rss_feed() call of fetch_and_rank_news can make: each
\* followed link adds two frames (fetch_rss_feed, extract_rss_from_html).
HopBound == (RecursionLimit - Len(CallerFrames)) \div 2

====
